---- MODULE Spec2Model ----
(***************************************************************************)
(* A model of notePlayer.js: the 88-key keyboard table (getNotesInfo),    *)
(* the three Note builders, the Note constructor, the setters and the     *)
(* asynchronous play().                                                    *)
(*                                                                         *)
(* Encodings.                                                              *)
(*  - A JavaScript string is a sequence of one-character strings, so that *)
(*    concatenation (v2+v) and substr(-1,1) are computed, not assumed.     *)
(*  - A frequency is a fixed-point number of millihertz.  One semitone     *)
(*    step multiplies by 1.059463 (2^(1/12) to six decimals), rounding    *)
(*    down; the products stay below 2^31.                                  *)
(*  - A duration is a number of half seconds, a volume a number of       *)
(*    tenths.                                                              *)
(*  - An audio context is a positive integer; its destination node is     *)
(*    DestBase + that integer.  Undefined stands for JavaScript's          *)
(*    undefined wherever a number or a handle is expected.                 *)
(***************************************************************************)
EXTENDS Integers, Sequences, FiniteSets, TLC

VARIABLES
    FREQ,       \* global FREQ, as left by the last getNotesInfo()
    KEYNB,      \* global KEYNB, as left by the last getNotesInfo()
    n,          \* global n: <<>> (undefined) or <<entry>>, the matched entry
    info,       \* the array the caller last got from getNotesInfo()
    firstInfo,  \* the array the first getNotesInfo() invocation returned
    note,       \* the caller's Note: <<>> (none/null) or <<Note>>
    contexts,   \* the audio contexts that exist
    call,       \* the last call made: [op, arg, ac]
    ret,        \* its outcome: [kind, found]
    plays,      \* one record per play() that started an oscillator
    now         \* the clock, in half seconds

vars == <<FREQ, KEYNB, n, info, firstInfo, note, contexts, call, ret, plays, now>>

----------------------------------------------------------------------------
(* Bounds of the model *)

MaxContexts == 2        \* audio contexts the platform lets exist at once
MaxPlays == 1           \* play() calls that start an oscillator
MaxTime == 2            \* the clock stops here
MaxRandomSamples == 1   \* values _.random is sampled at, from its lower end

----------------------------------------------------------------------------
(* Values *)

Undefined == -1

DestBase == 100

destination(ac) == DestBase + ac

\* Math.abs
abs(x) == IF x < 0 THEN 0 - x ELSE x

----------------------------------------------------------------------------
(* getNotesInfo *)

DICT_KEYS ==
    << <<"A">>, <<"A", "#">>, <<"B">>, <<"C">>, <<"C", "#">>, <<"D">>,
       <<"D", "#">>, <<"E">>, <<"F">>, <<"F", "#">>, <<"G">>, <<"G", "#">> >>

DICT_OCTAVES == <<0, 1, 2, 3, 4, 5, 6, 7, 8>>

\* FREQ = 25.95654359874657, in millihertz
FREQ_START == 25957

KEYNB_START == 0

PIANO_KEYS == 88

\* the decimal digits a one-digit number converts to in v2+v
NumberToString(v) == << <<"0","1","2","3","4","5","6","7","8","9">>[v + 1] >>

\* FREQ * Math.pow(2, 1/12), in fixed point: f + floor(f * 59463 / 10^6)
Semitone(f) ==
    LET fh == f \div 1000
        fl == f % 1000
    IN  f + ((fh * 59463 + ((fl * 59463) \div 1000)) \div 1000)

\* the inner iteratee, called for key v2 of octave v with the globals g:
\* KEYNB++, FREQ = FREQ * Math.pow(2, 1/12), and the entry it returns
KeyEntry(v, v2, g) ==
    LET g2 == [KEYNB |-> g.KEYNB + 1, FREQ |-> Semitone(g.FREQ)]
    IN  [entry |-> [keynb |-> g2.KEYNB, freq |-> g2.FREQ,
                    name |-> v2 \o NumberToString(v)],
         g |-> g2]

\* _(DICT_KEYS).map(...).value() for octave v, from the k2-th key on
RECURSIVE MapKeys(_, _, _)
MapKeys(v, k2, g) ==
    IF k2 > Len(DICT_KEYS) THEN [value |-> <<>>, g |-> g]
    ELSE LET e == KeyEntry(v, DICT_KEYS[k2], g)
             rest == MapKeys(v, k2 + 1, e.g)
         IN  [value |-> <<e.entry>> \o rest.value, g |-> rest.g]

\* _(DICT_OCTAVES).map(...).flatten(), from the k-th octave on
RECURSIVE MapOctaves(_, _)
MapOctaves(k, g) ==
    IF k > Len(DICT_OCTAVES) THEN [value |-> <<>>, g |-> g]
    ELSE LET row == MapKeys(DICT_OCTAVES[k], 1, g)
             rest == MapOctaves(k + 1, row.g)
         IN  [value |-> row.value \o rest.value, g |-> rest.g]

\* the dropRightWhile predicate, i the 0-based index
BeyondKeyboardOffByOne(e, i) == i > PIANO_KEYS

BeyondKeyboard(e, i) == i >= PIANO_KEYS

\* _.dropRightWhile: drop[k] is list[0..k-1] without the longest tail on
\* which the predicate holds
dropRightWhile(list) ==
    LET drop[k \in 0..Len(list)] ==
            IF k > 0 /\ BeyondKeyboard(list[k], k - 1)
            THEN drop[k - 1] ELSE SubSeq(list, 1, k)
    IN  drop[Len(list)]

\* getNotesInfo() that leaves KEYNB as it finds it
getNotesInfoStaleKeynb ==
    LET m == MapOctaves(1, [FREQ |-> FREQ_START,
                            KEYNB |-> IF KEYNB = Undefined THEN KEYNB_START
                                      ELSE KEYNB])
    IN  [value |-> dropRightWhile(m.value), g |-> m.g]

\* getNotesInfo(): it sets the globals FREQ and KEYNB before it reads them,
\* so what it returns (value) and the globals it leaves (g) depend on
\* nothing
getNotesInfo ==
    LET m == MapOctaves(1, [FREQ |-> FREQ_START, KEYNB |-> KEYNB_START])
    IN  [value |-> dropRightWhile(m.value), g |-> m.g]

----------------------------------------------------------------------------
(* The constructor *)

\* _.random(0.5, 3, true), in half seconds: the bounds it samples between
RANDOM_LOWER == 1

RANDOM_UPPER == 6

RandomDurations ==
    {d \in RANDOM_LOWER..RANDOM_UPPER : d < RANDOM_LOWER + MaxRandomSamples}

\* this.volume = 1, in tenths
DEFAULT_VOLUME == 10

\* String.prototype.substr(start, length) for a negative start
substr(str, start, length) ==
    LET from == IF Len(str) + start < 0 THEN 1 ELSE Len(str) + start + 1
        to == IF from + length - 1 > Len(str) THEN Len(str) ELSE from + length - 1
    IN  SubSeq(str, from, to)

\* obj.audioContext = v: the property is created when it is written
SetProperty(obj, key, v) ==
    [p \in DOMAIN obj \cup {key} |-> IF p = key THEN v ELSE obj[p]]

\* this.audioContext = ...: a constructor that always reaches for a new one
ChooseAudioContextAlwaysNew(given, fresh) == fresh

\* (obj.audioContext === void 0) ? new AudioContext() : obj.audioContext;
\* fresh is what new AudioContext() gives, Undefined when it throws
ChooseAudioContext(given, fresh) ==
    IF given = Undefined THEN fresh ELSE given

\* function notePlayer(obj), run on a fresh `this`.  rnd is the value
\* _.random gives, fresh the context new AudioContext() would give
\* (Undefined: it throws).  The result holds `this` as the body left it,
\* what the body returned, and the context it created (or Undefined).
notePlayer(obj, rnd, fresh) ==
    LET this == [pianoKeyNb |-> obj.keynb,
                 frequency |-> obj.freq,
                 octave |-> substr(obj.name, -1, 1),
                 name |-> obj.name,
                 duration |-> rnd,
                 volume |-> DEFAULT_VOLUME,
                 audioContext |-> Undefined,
                 destinationNode |-> Undefined]
        ac == ChooseAudioContext(obj.audioContext, fresh)
    IN  IF ac = Undefined
        THEN \* the try block threw: catch, console.error, return null
             [this |-> this, returned |-> "null", created |-> Undefined]
        ELSE [this |-> [this EXCEPT !.audioContext = ac,
                                    !.destinationNode = destination(ac)],
              returned |-> "undefined",
              created |-> IF ac = obj.audioContext THEN Undefined ELSE ac]

\* new notePlayer(obj): a constructor's primitive return value (null,
\* undefined) is ignored and the new object is the value
new(c) == [kind |-> "note", note |-> <<c.this>>, created |-> c.created]

----------------------------------------------------------------------------
(* The builders *)

\* the first index of list among the indexes in S
FirstIndex(S) == CHOOSE i \in S : \A j \in S : i <= j

\* _(list).find(function(e){ return e.name == noteName }): the first
\* match, <<>> (undefined) when there is none
findByName(list, noteName) ==
    LET S == {i \in 1..Len(list) : list[i].name = noteName}
    IN  IF S = {} THEN <<>> ELSE <<list[FirstIndex(S)]>>

\* _(list).find(function(e){ return e.keynb == noteKeyNb })
findByKeyNb(list, noteKeyNb) ==
    LET S == {i \in 1..Len(list) : list[i].keynb = noteKeyNb}
    IN  IF S = {} THEN <<>> ELSE <<list[FirstIndex(S)]>>

\* a builder's outcome: kind is "note" (an object came back), "null"
\* (null came back) or "throw" (an exception reached the caller)
Outcome(kind, found, nt, created, nn) ==
    [kind |-> kind, found |-> found, note |-> nt, created |-> created,
     n |-> nn]

buildFromName(noteName, audioContext, rnd, fresh) ==
    LET t == getNotesInfo
        f == findByName(t.value, noteName)
    IN  IF f = <<>>
        THEN \* throw "Invalid note name", caught: return null
             Outcome("null", FALSE, <<>>, Undefined, f)
        ELSE LET e == SetProperty(f[1], "audioContext", audioContext)
                 r == new(notePlayer(e, rnd, fresh))
             IN  Outcome(r.kind, TRUE, r.note, r.created, <<e>>)

\* the reducer with the comparison turned into <=
closerOrEqual(list, prev, curr, noteFreq) ==
    IF abs(list[curr].freq - noteFreq) <= abs(list[prev].freq - noteFreq)
    THEN curr ELSE prev

\* the reducer of list.reduce in buildFromFrequency.  prev and curr are
\* references to elements of list, here their (1-based) indexes
closer(list, prev, curr, noteFreq) ==
    IF abs(list[curr].freq - noteFreq) < abs(list[prev].freq - noteFreq)
    THEN curr ELSE prev

\* list.reduce(f) without an initial value: the accumulator starts as
\* list[0] and takes list[1], list[2], ... in turn.  fold[lo, hi, prev] is
\* the accumulator after list[lo..hi] (in 1-based indexes), from prev; the
\* range is halved only to keep the evaluation shallow
reduce(list, noteFreq) ==
    LET fold[lo \in Nat, hi \in Nat, prev \in Nat] ==
            IF lo > hi THEN prev
            ELSE IF lo = hi THEN closer(list, prev, lo, noteFreq)
            ELSE fold[((lo + hi) \div 2) + 1, hi,
                      fold[lo, (lo + hi) \div 2, prev]]
    IN  list[fold[2, Len(list), 1]]

\* noteFreq < list[0].freq || noteFreq > list[list.length-1].freq
outOfRange(list, noteFreq) ==
    noteFreq < list[1].freq \/ noteFreq > list[Len(list)].freq

buildFromFrequency(noteFreq, audioContext, rnd, fresh) ==
    LET t == getNotesInfo
        list == t.value
    IN  IF outOfRange(list, noteFreq)
        THEN \* throw "Invalid frequency (out of range)", caught: return null
             Outcome("null", FALSE, <<>>, Undefined, <<>>)
        ELSE LET closest == reduce(list, noteFreq)
             IN  buildFromName(closest.name, audioContext, rnd, fresh)

buildFromKeyNb(noteKeyNb, audioContext, rnd, fresh) ==
    LET t == getNotesInfo
        f == findByKeyNb(t.value, noteKeyNb)
    IN  IF f = <<>>
        THEN \* n.audioContext = ... on undefined: a TypeError, not caught
             Outcome("throw", FALSE, <<>>, Undefined, f)
        ELSE LET e == SetProperty(f[1], "audioContext", audioContext)
                 r == new(notePlayer(e, rnd, fresh))
             IN  Outcome(r.kind, TRUE, r.note, r.created, <<e>>)

----------------------------------------------------------------------------
(* The environment: the platform and the caller *)

\* the audio contexts the caller made before using the library
CallerContexts == {1}

\* what new (window.AudioContext || window.webkitAudioContext)() gives:
\* it throws (Undefined: no window, no Web Audio, no context left), or it
\* makes one more context
FreshContexts ==
    {Undefined} \cup
    (IF Cardinality(contexts) < MaxContexts
     THEN {Cardinality(contexts) + 1} ELSE {})

\* the optional audioContext argument: absent, or a context that exists
AudioContextArgs == {Undefined} \cup contexts

\* a callback: absent, or a function
CALLBACK == 1

Callbacks == {Undefined, CALLBACK}

Call(op, arg, ac) == [op |-> op, arg |-> arg, ac |-> ac]

Ret(kind, found) == [kind |-> kind, found |-> found]

BuildOps == {"buildFromName", "buildFromFrequency", "buildFromKeyNb"}

\* whether o is a Note with every property set
Complete(o) == o.audioContext # Undefined /\ o.destinationNode # Undefined

----------------------------------------------------------------------------
(* Init and the actions *)

Init ==
    /\ FREQ = Undefined
    /\ KEYNB = Undefined
    /\ n = <<>>
    /\ info = <<>>
    /\ firstInfo = <<>>
    /\ note = <<>>
    /\ contexts = CallerContexts
    /\ call = Call("none", Undefined, Undefined)
    /\ ret = Ret("undefined", TRUE)
    /\ plays = <<>>
    /\ now = 0

\* the caller calls notePlayer.getNotesInfo()
GetNotesInfo ==
    LET t == getNotesInfo
    IN  /\ FREQ' = t.g.FREQ
        /\ KEYNB' = t.g.KEYNB
        /\ info' = t.value
        /\ firstInfo' = IF firstInfo = <<>> THEN t.value ELSE firstInfo
        /\ call' = Call("getNotesInfo", Undefined, Undefined)
        /\ ret' = Ret("array", TRUE)
        /\ UNCHANGED <<n, note, contexts, plays, now>>

\* what a builder's outcome o does to the state; the caller keeps what it
\* got (note = build(...)), and keeps its old Note when the call throws
Built(op, arg, audioContext, o) ==
    /\ FREQ' = getNotesInfo.g.FREQ
    /\ KEYNB' = getNotesInfo.g.KEYNB
    /\ n' = o.n
    /\ firstInfo' = IF firstInfo = <<>> THEN getNotesInfo.value
                    ELSE firstInfo
    /\ note' = IF o.kind = "throw" THEN note ELSE o.note
    /\ contexts' = IF o.created = Undefined THEN contexts
                   ELSE contexts \cup {o.created}
    /\ call' = Call(op, arg, audioContext)
    /\ ret' = Ret(o.kind, o.found)
    /\ UNCHANGED <<info, plays, now>>

BuildFromName(noteName, audioContext) ==
    /\ audioContext \in AudioContextArgs
    /\ \E rnd \in RandomDurations, fresh \in FreshContexts :
          Built("buildFromName", noteName, audioContext,
                buildFromName(noteName, audioContext, rnd, fresh))

BuildFromFrequency(noteFreq, audioContext) ==
    /\ audioContext \in AudioContextArgs
    /\ \E rnd \in RandomDurations, fresh \in FreshContexts :
          Built("buildFromFrequency", noteFreq, audioContext,
                buildFromFrequency(noteFreq, audioContext, rnd, fresh))

BuildFromKeyNb(noteKeyNb, audioContext) ==
    /\ audioContext \in AudioContextArgs
    /\ \E rnd \in RandomDurations, fresh \in FreshContexts :
          Built("buildFromKeyNb", noteKeyNb, audioContext,
                buildFromKeyNb(noteKeyNb, audioContext, rnd, fresh))

\* a method call on the caller's Note: the Note it leaves and the outcome
Method(op, arg, this, kind) ==
    /\ note' = <<this>>
    /\ call' = Call(op, arg, Undefined)
    /\ ret' = Ret(kind, TRUE)
    /\ UNCHANGED <<FREQ, KEYNB, n, info, firstInfo, contexts, plays, now>>

\* notePlayer.prototype.setAudioContext
SetAudioContext(ac) ==
    /\ note # <<>>
    /\ Method("setAudioContext", ac,
              [note[1] EXCEPT !.audioContext =
                   IF ac = Undefined THEN note[1].audioContext ELSE ac],
              "undefined")

\* notePlayer.prototype.setDestinationNode: with dn undefined it reads
\* this.audiocontext, a property no Note has, and .destination of it throws
SetDestinationNode(dn) ==
    /\ note # <<>>
    /\ IF dn = Undefined
       THEN Method("setDestinationNode", dn, note[1], "throw")
       ELSE Method("setDestinationNode", dn,
                   [note[1] EXCEPT !.destinationNode = dn], "undefined")

\* notePlayer.prototype.setDuration
SetDuration(d) ==
    /\ note # <<>>
    /\ Method("setDuration", d,
              [note[1] EXCEPT !.duration =
                   IF d = Undefined THEN note[1].duration ELSE d],
              "undefined")

\* notePlayer.prototype.setVolume
SetVolume(v) ==
    /\ note # <<>>
    /\ Method("setVolume", v,
              [note[1] EXCEPT !.volume =
                   IF v = Undefined THEN note[1].volume ELSE v],
              "undefined")

----------------------------------------------------------------------------
(* play *)

\* createOscillator on an undefined audioContext throws; connect throws
\* when the destination is not a node of the context the gain was made on
PlayThrows(this) ==
    \/ this.audioContext = Undefined
    \/ this.destinationNode # destination(this.audioContext)

\* the delay given to setTimeout, this.duration * 1000, in half seconds
TimerDelay(this) == this.duration

\* notePlayer.prototype.play: the oscillator it starts, its timer and its
\* onended handler are one record of plays
Play(callback) ==
    /\ note # <<>>
    /\ Len(plays) < MaxPlays
    /\ call' = Call("play", callback, Undefined)
    /\ IF PlayThrows(note[1])
       THEN /\ ret' = Ret("throw", TRUE)
            /\ plays' = plays
       ELSE /\ ret' = Ret("undefined", TRUE)
            /\ plays' = Append(plays,
                  [frequency |-> note[1].frequency,
                   gain |-> note[1].volume,
                   audioContext |-> note[1].audioContext,
                   destinationNode |-> note[1].destinationNode,
                   delay |-> TimerDelay(note[1]),
                   callback |-> callback,
                   state |-> "playing",
                   startedAt |-> now,
                   stoppedAt |-> Undefined,
                   called |-> 0])
    /\ UNCHANGED <<FREQ, KEYNB, n, info, firstInfo, note, contexts, now>>

\* a timer callback that calls the callback itself
TimerCallbackCallsBack(p, t) ==
    [p EXCEPT !.state = "stopped", !.stoppedAt = t,
              !.called = IF p.callback # Undefined THEN @ + 1 ELSE @]

\* function(){ oscillator.stop() }
TimerCallback(p, t) == [p EXCEPT !.state = "stopped", !.stoppedAt = t]

\* the timer of play i fires, no sooner than its delay after setTimeout
TimerFire(i) ==
    /\ i \in 1..Len(plays)
    /\ plays[i].state = "playing"
    /\ now >= plays[i].startedAt + plays[i].delay
    /\ plays' = [plays EXCEPT ![i] = TimerCallback(plays[i], now)]
    /\ call' = Call("timer", i, Undefined)
    /\ ret' = Ret("undefined", TRUE)
    /\ UNCHANGED <<FREQ, KEYNB, n, info, firstInfo, note, contexts, now>>

\* oscillator.onended: if( callback ) { callback() }
onended(p) ==
    [p EXCEPT !.state = "ended",
              !.called = IF p.callback # Undefined THEN @ + 1 ELSE @]

\* the stopped oscillator of play i signals "ended"
OnEnded(i) ==
    /\ i \in 1..Len(plays)
    /\ plays[i].state = "stopped"
    /\ plays' = [plays EXCEPT ![i] = onended(plays[i])]
    /\ call' = Call("ended", i, Undefined)
    /\ ret' = Ret("undefined", TRUE)
    /\ UNCHANGED <<FREQ, KEYNB, n, info, firstInfo, note, contexts, now>>

\* half a second passes
Tick ==
    /\ now < MaxTime
    /\ now' = now + 1
    /\ call' = Call("tick", Undefined, Undefined)
    /\ ret' = Ret("undefined", TRUE)
    /\ UNCHANGED <<FREQ, KEYNB, n, info, firstInfo, note, contexts, plays>>

----------------------------------------------------------------------------
(* Specifications *)

\* the arguments the caller tries
NameArgs == {<<"A", "4">>, <<"C", "8">>, <<"Z", "9">>}

KeyNbArgs == {0, 1, 88, 89}

FreqArgs == {20000, 440000, 5000000}

DurationArgs == {Undefined, 3}

VolumeArgs == {Undefined, 5}

PlayDurationArgs == {2}

DestinationArgs == {Undefined} \cup {destination(ac) : ac \in contexts}

\* the table's frequencies, the two integers around the middle of every
\* two neighbours, and the first frequency outside either end
WideFreqArgs ==
    LET list == getNotesInfo.value
    IN  {list[i].freq : i \in 1..Len(list)}
        \cup {((list[i].freq + list[i + 1].freq) \div 2) + d :
                 i \in 1..(Len(list) - 1), d \in {0, 1}}
        \cup {list[1].freq - 1, list[Len(list)].freq + 1}

\* resolution: the table and the three builders, in any order
Next ==
    \/ GetNotesInfo
    \/ \E noteName \in NameArgs, ac \in AudioContextArgs :
          BuildFromName(noteName, ac)
    \/ \E noteFreq \in FreqArgs, ac \in AudioContextArgs :
          BuildFromFrequency(noteFreq, ac)
    \/ \E noteKeyNb \in KeyNbArgs, ac \in AudioContextArgs :
          BuildFromKeyNb(noteKeyNb, ac)

Spec == Init /\ [][Next]_vars

\* buildFromFrequency over the whole keyboard, one call in a run (the
\* builder reads nothing that an earlier call leaves)
NextFreq ==
    /\ call.op = "none"
    /\ \E noteFreq \in WideFreqArgs, ac \in CallerContexts :
          BuildFromFrequency(noteFreq, ac)

SpecFreq == Init /\ [][NextFreq]_vars

\* a Note and its setters
NextNote ==
    \/ \E ac \in AudioContextArgs : BuildFromName(<<"A", "4">>, ac)
    \/ \E ac \in AudioContextArgs : SetAudioContext(ac)
    \/ \E dn \in DestinationArgs : SetDestinationNode(dn)
    \/ \E d \in DurationArgs : SetDuration(d)
    \/ \E v \in VolumeArgs : SetVolume(v)

SpecNote == Init /\ [][NextNote]_vars

\* a Note played
NextPlay ==
    \/ \E ac \in CallerContexts : BuildFromName(<<"A", "4">>, ac)
    \/ \E d \in PlayDurationArgs : SetDuration(d)
    \/ \E callback \in Callbacks : Play(callback)
    \/ \E i \in 1..MaxPlays : TimerFire(i)
    \/ \E i \in 1..MaxPlays : OnEnded(i)
    \/ Tick

SpecPlay == Init /\ [][NextPlay]_vars

----------------------------------------------------------------------------
(* The claims *)

EntryFields == {"keynb", "freq", "name"}

\* C1: the sequence getNotesInfo() returns has exactly 88 entries, their
\* keynb are 1..88 in ascending order, and freq strictly increases with
\* keynb.
C1_TableShape ==
    call.op = "getNotesInfo" =>
        /\ Len(info) = 88
        /\ \A i \in 1..Len(info) : info[i].keynb = i
        /\ \A i \in 1..(Len(info) - 1) : info[i].freq < info[i + 1].freq

C1_Witness ==
    /\ call.op = "getNotesInfo"
    /\ Len(info) = 88
    /\ info[1].keynb = 1
    /\ info[88].keynb = 88

\* C2: buildFromKeyNb(1) yields a Note named "A0" and buildFromKeyNb(88) a
\* Note named "C8".
C2_KeyNames ==
    (call.op = "buildFromKeyNb" /\ ret.kind = "note") =>
        /\ call.arg = 1 => note[1].name = <<"A", "0">>
        /\ call.arg = 88 => note[1].name = <<"C", "8">>

\* the indexes of the entries of list nearest to the frequency f
Nearest(list, f) ==
    {i \in 1..Len(list) :
        \A j \in 1..Len(list) :
            abs(list[i].freq - f) <= abs(list[j].freq - f)}

\* C3: for every frequency f within [table[0].freq, table[87].freq],
\* buildFromFrequency(f) returns the Note of the entry whose freq is
\* nearest to f, the lower key number winning a tie; so a table frequency
\* gives back its own key.
C3_NearestKey ==
    LET list == getNotesInfo.value
        f == call.arg
    IN  (call.op = "buildFromFrequency"
            /\ list[1].freq <= f /\ f <= list[Len(list)].freq) =>
           /\ ret.kind = "note"
           /\ \E i \in Nearest(list, f) :
                 /\ \A j \in Nearest(list, f) : i <= j
                 /\ note[1].pianoKeyNb = list[i].keynb
                 /\ note[1].frequency = list[i].freq
                 /\ note[1].name = list[i].name
           /\ \A i \in 1..Len(list) :
                 f = list[i].freq => note[1].pianoKeyNb = list[i].keynb

\* a frequency right between two keys went to the lower one
C3_Witness ==
    LET list == getNotesInfo.value
    IN  /\ call.op = "buildFromFrequency"
        /\ ret.kind = "note"
        /\ \E i \in 1..(Len(list) - 1) :
              /\ call.arg - list[i].freq = list[i + 1].freq - call.arg
              /\ note[1].pianoKeyNb = list[i].keynb

\* C4: the three builders report failure in the same shape: a name that
\* matches no entry, a frequency out of range and a key number that matches
\* no entry all give the caller null, as buildFromName does.
C4_SameFailureShape ==
    (call.op \in BuildOps /\ ~ret.found) => ret.kind = "null"

\* C5: no partial Note is returned: whatever object a builder returns has
\* its audioContext and destinationNode set.
C5_NoPartialNote ==
    (call.op \in BuildOps /\ ret.kind = "note") => Complete(note[1])

\* C6: setDuration, setVolume and setDestinationNode with undefined change
\* nothing and raise nothing; with a value each replaces exactly its own
\* field.
C6_Setters ==
    [][/\ call'.op = "setDuration" =>
            /\ ret'.kind # "throw"
            /\ note' = IF call'.arg = Undefined THEN note
                       ELSE <<[note[1] EXCEPT !.duration = call'.arg]>>
       /\ call'.op = "setVolume" =>
            /\ ret'.kind # "throw"
            /\ note' = IF call'.arg = Undefined THEN note
                       ELSE <<[note[1] EXCEPT !.volume = call'.arg]>>
       /\ call'.op = "setDestinationNode" =>
            /\ ret'.kind # "throw"
            /\ note' = IF call'.arg = Undefined THEN note
                       ELSE <<[note[1] EXCEPT !.destinationNode = call'.arg]>>
      ]_vars

\* C7, as claimed: a builder called without an audio context creates none.
C7_NoContextCreated ==
    [][(call'.op \in BuildOps /\ call'.ac = Undefined) =>
          contexts' = contexts]_vars

\* C7, amended: a builder creates no audio context when it is given one or
\* when no entry matches; called without one, with a matching entry, the
\* constructor asks the platform for a new context, which then is the one
\* context added and the Note's audioContext, or, when the platform gives
\* none, no context is added and the Note has none.
C7_ContextOnlyWhenOmitted ==
    [][call'.op \in BuildOps =>
          IF call'.ac # Undefined \/ ~ret'.found
          THEN contexts' = contexts
          ELSE \/ /\ contexts' = contexts
                  /\ note'[1].audioContext = Undefined
               \/ /\ note'[1].audioContext \notin contexts
                  /\ contexts' = contexts \cup {note'[1].audioContext}
      ]_vars

C7_Witness ==
    /\ call.op \in BuildOps
    /\ call.ac = Undefined
    /\ ret.found
    /\ note[1].audioContext \in contexts \ CallerContexts

\* C8: for every play(callback): the oscillator starts, the timer stops it
\* no sooner than the duration the Note had when play was called, then it
\* signals "ended", and only then, and at most once, the callback is
\* called; a later setDuration does not change the delay of a running
\* tone.
C8_PlayOrder ==
    /\ [](\A i \in 1..Len(plays) :
            LET p == plays[i]
            IN  /\ p.called <= 1
                /\ p.called = 1 => (p.state = "ended" /\ p.callback # Undefined)
                /\ p.state = "playing" => p.stoppedAt = Undefined
                /\ p.state # "playing" => p.stoppedAt >= p.startedAt + p.delay)
    /\ [][/\ Len(plays') >= Len(plays)
          /\ \A i \in 1..Len(plays) :
                /\ plays'[i].delay = plays[i].delay
                /\ plays'[i].startedAt = plays[i].startedAt
                /\ plays'[i].called >= plays[i].called
                /\ <<plays[i].state, plays'[i].state>> \in
                      {<<"playing", "playing">>, <<"playing", "stopped">>,
                       <<"stopped", "stopped">>, <<"stopped", "ended">>,
                       <<"ended", "ended">>}
                /\ plays'[i].called > plays[i].called =>
                      (plays[i].state = "stopped" /\ plays'[i].state = "ended")
          /\ Len(plays') > Len(plays) =>
                /\ call'.op = "play"
                /\ plays'[Len(plays')].delay = note[1].duration
                /\ plays'[Len(plays')].startedAt = now
                /\ plays'[Len(plays')].state = "playing"
                /\ plays'[Len(plays')].called = 0
         ]_vars

\* a tone whose Note got another duration after play, ended and called back
C8_Witness ==
    \E i \in 1..Len(plays) :
        /\ plays[i].state = "ended"
        /\ plays[i].called = 1
        /\ note # <<>>
        /\ note[1].duration # plays[i].delay

\* C9: table generation is idempotent: after any sequence of getNotesInfo
\* and builder calls, getNotesInfo() returns the sequence the first
\* invocation returned, with no field added to any entry.
C9_Idempotent ==
    call.op = "getNotesInfo" =>
        /\ info = firstInfo
        /\ \A i \in 1..Len(info) : DOMAIN info[i] = EntryFields

\* getNotesInfo() after a builder wrote audioContext onto its entry
C9_Witness ==
    /\ call.op = "getNotesInfo"
    /\ info = firstInfo
    /\ n # <<>>
    /\ "audioContext" \in DOMAIN n[1]
    /\ KEYNB > 88

\* C10: setAudioContext with a context keeps the Note's destinationNode the
\* destination of its audioContext.
C10_DestinationFollowsContext ==
    [][(/\ call'.op = "setAudioContext"
        /\ call'.arg # Undefined
        /\ Complete(note[1])
        /\ note[1].destinationNode = destination(note[1].audioContext)) =>
          note'[1].destinationNode = destination(note'[1].audioContext)]_vars

====
